---------------------------- MODULE Spec2Model ----------------------------
(***************************************************************************)
(* pyramid_xmlrpc / repoze.bfg.xmlrpc: the XML-RPC request guard, the      *)
(* envelope codec and the two dispatch adapters (the xmlrpc_view wrapper   *)
(* and XMLRPCView.__call__), with the process-wide options that includeme  *)
(* sets on the XMLRPCView class.                                           *)
(*                                                                         *)
(* A request is handled by one thread in four steps, in the order of the   *)
(* statements of the source: the size guard and the decoding of the body   *)
(* (parse_xmlrpc_request), the call of the handler, and the encoding of    *)
(* its return value (xmlrpc_response).  An exception raised by a step ends *)
(* the request: the source has no try/except.                              *)
(***************************************************************************)
EXTENDS Integers, Sequences, FiniteSets, TLC

(***************************************************************************)
(* Bounds of the model.                                                    *)
(***************************************************************************)
\* The longest parameter list of a request.
MaxParams == 1
\* The depth at which the interpreter stops a runaway recursion
\* (sys.getrecursionlimit(), 1000 in CPython; the model uses a small one).
MaxRecursion == 2

(***************************************************************************)
(* Python values.  Every value is a record tagged by its type; the fields  *)
(* of different types have different names.                                *)
(***************************************************************************)
PyNone == [ty |-> "NoneType"]
PyBool(b) == [ty |-> "bool", b |-> b]
PyInt(i) == [ty |-> "int", i |-> i]
\* A str holding a name (a setting's text, a charset's name).
PyStr(s) == [ty |-> "str", s |-> s]
\* A unicode string: its code points.
PyUnicode(cps) == [ty |-> "unicode", cps |-> cps]
\* xmlrpclib.DateTime: the opaque wrapper of the wire text (digits yyyymmdd).
PyDateTimeWrapper(iso) == [ty |-> "DateTime", iso |-> iso]
\* datetime.datetime: the native value.
PyDatetime(y, m, d) == [ty |-> "datetime", ymd |-> <<y, m, d>>]
PyFault(code, string) == [ty |-> "Fault", faultCode |-> code, faultString |-> string]
\* An exception instance: its class and its arguments.
PyExc(type, args) == [ty |-> "exception", type |-> type, args |-> args]

IsFault(v) == v.ty = "Fault"

\* "what", "foo" and an e with an acute accent (U+00E9).
What == <<119, 104, 97, 116>>
Foo == <<102, 111, 111>>
EAcute == <<233>>

(***************************************************************************)
(* Character sets: unicode.encode(encoding) and str.decode(encoding).      *)
(***************************************************************************)
Utf8Bytes(cp) ==
    IF cp < 128 THEN <<cp>>
    ELSE IF cp < 2048 THEN <<192 + (cp \div 64), 128 + (cp % 64)>>
    ELSE <<224 + (cp \div 4096), 128 + ((cp \div 64) % 64), 128 + (cp % 64)>>

RECURSIVE Utf8Encode(_)
Utf8Encode(cps) ==
    IF cps = <<>> THEN <<>> ELSE Utf8Bytes(Head(cps)) \o Utf8Encode(Tail(cps))

RECURSIVE Utf8Decode(_)
Utf8Decode(bytes) ==
    IF bytes = <<>> THEN <<>>
    ELSE IF bytes[1] < 128 THEN <<bytes[1]>> \o Utf8Decode(Tail(bytes))
    ELSE IF bytes[1] < 224
         THEN <<(bytes[1] - 192) * 64 + (bytes[2] - 128)>>
              \o Utf8Decode(SubSeq(bytes, 3, Len(bytes)))
    ELSE <<(bytes[1] - 224) * 4096 + (bytes[2] - 128) * 64 + (bytes[3] - 128)>>
         \o Utf8Decode(SubSeq(bytes, 4, Len(bytes)))

\* The largest code point a single-byte charset holds, plus one.
CharsetSize(encoding) == IF encoding = "us-ascii" THEN 128 ELSE 256

CanEncode(cps, encoding) ==
    encoding = "utf-8" \/ \A k \in 1..Len(cps) : cps[k] < CharsetSize(encoding)

EncodeText(cps, encoding) == IF encoding = "utf-8" THEN Utf8Encode(cps) ELSE cps

DecodeText(bytes, encoding) == IF encoding = "utf-8" THEN Utf8Decode(bytes) ELSE bytes

(***************************************************************************)
(* Date and time on the wire: <dateTime.iso8601> holds the digits          *)
(* yyyymmdd (the time of day is left out of the model).                    *)
(***************************************************************************)
IsoFormat(ymd) == ymd[1] * 10000 + ymd[2] * 100 + ymd[3]

IsoParse(iso) == <<iso \div 10000, (iso \div 100) % 100, iso % 100>>

(***************************************************************************)
(* xmlrpclib.Marshaller: a Python value to a <value> element.              *)
(***************************************************************************)
WNil == [tag |-> "nil"]
WInt(i) == [tag |-> "int", i |-> i]
WString(bytes) == [tag |-> "string", bytes |-> bytes]
WDate(iso) == [tag |-> "dateTime.iso8601", iso |-> iso]
WStruct(members) == [tag |-> "struct", members |-> members]

Marshalled(w) == [ok |-> TRUE, wire |-> w]
Raised(exc) == [ok |-> FALSE, exc |-> exc]

CannotMarshalNone == PyExc("TypeError", <<"cannot marshal None unless allow_none is enabled">>)
CannotEncode(encoding) == PyExc("UnicodeEncodeError", <<encoding>>)

MarshalScalar(v, allow_none, encoding) ==
    CASE v.ty = "NoneType" ->
             IF allow_none THEN Marshalled(WNil) ELSE Raised(CannotMarshalNone)
      [] v.ty = "int" -> Marshalled(WInt(v.i))
      [] v.ty = "unicode" ->
             IF CanEncode(v.cps, encoding)
             THEN Marshalled(WString(EncodeText(v.cps, encoding)))
             ELSE Raised(CannotEncode(encoding))
      [] v.ty = "DateTime" -> Marshalled(WDate(v.iso))
      [] v.ty = "datetime" -> Marshalled(WDate(IsoFormat(v.ymd)))

\* The members of a fault (or of any instance): faultCode first.
MarshalMembers(v, allow_none, encoding) ==
    LET c == MarshalScalar(v.faultCode, allow_none, encoding)
        s == MarshalScalar(v.faultString, allow_none, encoding)
    IN  IF ~c.ok THEN c
        ELSE IF ~s.ok THEN s
        ELSE Marshalled([faultCode |-> c.wire, faultString |-> s.wire])

\* An instance that is no XML-RPC type is marshalled as the struct of its
\* attributes.
Marshal(v, allow_none, encoding) ==
    IF IsFault(v)
    THEN LET m == MarshalMembers(v, allow_none, encoding)
         IN  IF m.ok THEN Marshalled(WStruct(m.wire)) ELSE m
    ELSE MarshalScalar(v, allow_none, encoding)

(***************************************************************************)
(* xmlrpclib.Unmarshaller: a <value> element of a document in a given      *)
(* encoding to a Python value.                                             *)
(***************************************************************************)
Unmarshal(w, encoding, use_datetime) ==
    CASE w.tag = "nil" -> PyNone
      [] w.tag = "int" -> PyInt(w.i)
      [] w.tag = "string" -> PyUnicode(DecodeText(w.bytes, encoding))
      [] w.tag = "dateTime.iso8601" ->
             IF use_datetime
             THEN LET ymd == IsoParse(w.iso) IN PyDatetime(ymd[1], ymd[2], ymd[3])
             ELSE PyDateTimeWrapper(w.iso)


(***************************************************************************)
(* Documents.  A document is kept as its element tree and the encoding its *)
(* XML declaration states; the length of its text is not modelled.         *)
(***************************************************************************)
MethodCall(name, wparams) ==
    [root |-> "methodCall", encoding |-> "utf-8", methodName |-> name, params |-> wparams]
MethodResponse(encoding, wparams) ==
    [root |-> "methodResponse", encoding |-> encoding, params |-> wparams]
FaultResponse(encoding, members) ==
    [root |-> "methodResponse", encoding |-> encoding, fault |-> members]
\* A body that is no XML-RPC call.
Garbage == [root |-> "garbage"]

IsFaultDocument(doc) == doc.root = "methodResponse" /\ "fault" \in DOMAIN doc
IsSuccessDocument(doc) == doc.root = "methodResponse" /\ "params" \in DOMAIN doc

Dumped(doc) == [ok |-> TRUE, doc |-> doc]

\* dumps: "if not encoding: encoding = 'utf-8'".
EncodingName(encoding) == IF encoding.ty = "NoneType" THEN "utf-8" ELSE encoding.s

\* xmlrpclib.dumps(fault, allow_none=..., encoding=...)
dumps_fault(fault, allow_none, encoding) ==
    LET m == MarshalMembers(fault, allow_none, EncodingName(encoding))
    IN  IF m.ok THEN Dumped(FaultResponse(EncodingName(encoding), m.wire)) ELSE m

\* xmlrpclib.dumps((data,), methodresponse=True, allow_none=..., encoding=...)
dumps_response(data, allow_none, encoding) ==
    LET m == Marshal(data, allow_none, EncodingName(encoding))
    IN  IF m.ok THEN Dumped(MethodResponse(EncodingName(encoding), <<m.wire>>)) ELSE m

\* xmlrpclib.loads of a response document: its parameters.
loads_response(doc, use_datetime) ==
    [k \in 1..Len(doc.params) |-> Unmarshal(doc.params[k], doc.encoding, use_datetime)]

\* xmlrpclib.loads of a fault document: the Fault it raises.
loads_fault(doc) ==
    PyFault(Unmarshal(doc.fault.faultCode, doc.encoding, FALSE),
            Unmarshal(doc.fault.faultString, doc.encoding, FALSE))

ExpatError == PyExc("ExpatError", <<"syntax error">>)

\* xmlrpclib.loads(body, use_datetime): (params, method), or the parser's error.
loads(body, use_datetime) ==
    IF body.root # "methodCall" THEN Raised(ExpatError)
    ELSE [ok |-> TRUE,
          params |-> [k \in 1..Len(body.params) |->
                         Unmarshal(body.params[k], body.encoding, use_datetime)],
          method |-> body.methodName]

(***************************************************************************)
(* pyramid_xmlrpc                                                          *)
(***************************************************************************)
\* A marshaller without the isinstance test: a Fault goes the way of any value.
xmlrpc_marshal_no_fault(data, allow_none, encoding) ==
    dumps_response(data, allow_none, encoding)

\* A marshaller that does not pass allow_none on (it is always enabled).
xmlrpc_marshal_always_nil(data, allow_none, encoding) ==
    IF IsFault(data)
    THEN dumps_fault(data, TRUE, encoding)
    ELSE dumps_response(data, TRUE, encoding)

\* A marshaller that forgets methodresponse=True: the value is dumped as a
\* bare <params> list.
xmlrpc_marshal_no_envelope(data, allow_none, encoding) ==
    IF IsFault(data)
    THEN dumps_fault(data, allow_none, encoding)
    ELSE LET m == Marshal(data, allow_none, EncodingName(encoding))
         IN  IF m.ok
             THEN Dumped([root |-> "params", encoding |-> EncodingName(encoding),
                          params |-> <<m.wire>>])
             ELSE m

xmlrpc_marshal(data, allow_none, encoding) ==
    IF IsFault(data)
    THEN dumps_fault(data, allow_none, encoding)
    ELSE dumps_response(data, allow_none, encoding)

Response(xml) == [content_type |-> "text/xml", body |-> xml]

xmlrpc_response(data, allow_none, encoding) ==
    LET xml == xmlrpc_marshal(data, allow_none, encoding)
    IN  IF xml.ok THEN [ok |-> TRUE, response |-> Response(xml.doc)] ELSE xml

\* 1 << 23
BodyLimit == 8388608

TooLargeInclusive(content_length) == content_length >= BodyLimit

NeverTooLarge(content_length) == FALSE

TooLarge(content_length) == content_length > BodyLimit

BodyTooLarge(content_length) ==
    PyExc("ValueError", <<"Body too large (%s bytes)", content_length>>)

(***************************************************************************)
(* repoze.bfg.xmlrpc: the same functions without the options.              *)
(***************************************************************************)
bfg_xmlrpc_marshal(data) ==
    IF IsFault(data)
    THEN dumps_fault(data, FALSE, PyNone)
    ELSE dumps_response(data, FALSE, PyNone)

bfg_xmlrpc_response(data) ==
    LET xml == bfg_xmlrpc_marshal(data)
    IN  IF xml.ok THEN [ok |-> TRUE, response |-> Response(xml.doc)] ELSE xml

bfg_TooLarge(content_length) == content_length > BodyLimit

(***************************************************************************)
(* The application: the handlers the adapters call.  The same handlers are *)
(* the functions xmlrpc_view wraps and the methods of the XMLRPCView       *)
(* subclass.                                                               *)
(***************************************************************************)
HandlerNames == {"a_method", "nil_method", "fault_method", "raise_fault", "boom"}

Return(v) == [kind |-> "return", value |-> v]
Raise(exc) == [kind |-> "raise", exc |-> exc]

\* The fault a handler reports: its code is one more than the number of
\* arguments, its message the first argument when that is a string and
\* "foo" otherwise (Fault(1, 'foo') for a call without arguments).
HandlerFault(args) ==
    PyFault(PyInt(Len(args) + 1),
            IF Len(args) >= 1 /\ args[1].ty = "unicode" THEN args[1] ELSE PyUnicode(Foo))

Handler(name, args) ==
    CASE name = "a_method" ->
             IF Len(args) = 1 THEN Return(args[1])
             ELSE Raise(PyExc("TypeError", <<"a_method() takes exactly 1 argument">>))
      [] name = "nil_method" -> Return(PyNone)
      [] name = "fault_method" -> Return(HandlerFault(args))
      [] name = "raise_fault" -> Raise(HandlerFault(args))
      [] name = "boom" -> Raise(PyExc("RuntimeError", <<"boom">>))

(***************************************************************************)
(* The two calls of a handler.  Each yields how many times the handler was *)
(* called, which handler it was, and what the call expression came to: a   *)
(* returned value, a raised exception, or a re-entry of __call__.          *)
(***************************************************************************)
NoHandler == "-"

Redispatch == [kind |-> "redispatch"]

Called(n, name, out) == [calls |-> n, called |-> name, out |-> out]

\* A wrapper that calls the handler again when the first call raised.
curried_call_retry(wrapped, args) ==
    LET out == Handler(wrapped, args)
    IN  Called(IF out.kind = "raise" THEN 2 ELSE 1, wrapped, out)

\* wrapped(context, *params); the context is handed through untouched.
curried_call(wrapped, args) == Called(1, wrapped, Handler(wrapped, args))

\* wrapped(context, *params) of repoze.bfg.xmlrpc
bfg_curried_call(wrapped, args) == Called(1, wrapped, Handler(wrapped, args))

\* getattr(self, method)(*params): a method of the subclass, the inherited
\* __call__ (which takes no parameter), or no such attribute.
getattr_call(method, args) ==
    IF method \in HandlerNames THEN Called(1, method, Handler(method, args))
    ELSE IF method = "__call__"
         THEN Called(0, NoHandler,
                     IF args = <<>> THEN Redispatch
                     ELSE Raise(PyExc("TypeError", <<"__call__() takes exactly 1 argument">>)))
    ELSE Called(0, NoHandler, Raise(PyExc("AttributeError", <<method>>)))

RecursionError == PyExc("RuntimeError", <<"maximum recursion depth exceeded">>)

(***************************************************************************)
(* Settings and pyramid.settings.asbool.                                   *)
(***************************************************************************)
Absent == [ty |-> "absent"]

\* settings.get(key, default)
SettingsGet(settings, key, default) ==
    IF settings[key] = Absent THEN default ELSE settings[key]

Truthy == {"t", "true", "y", "yes", "on", "1"}

\* bool(v): every non-empty string is true.
asbool_truthiness(v) ==
    CASE v.ty = "NoneType" -> FALSE
      [] v.ty = "bool" -> v.b
      [] v.ty = "str" -> v.s # ""

asbool(v) ==
    CASE v.ty = "NoneType" -> FALSE
      [] v.ty = "bool" -> v.b
      [] v.ty = "str" -> v.s \in Truthy

(***************************************************************************)
(* Inputs.                                                                 *)
(***************************************************************************)
Threads == {"t1", "t2"}
MainThread == "t1"

Modes == {"xmlrpc_view", "XMLRPCView", "bfg_xmlrpc_view"}

\* 1 << 24, the declared length of the test of the guard
ContentLengths == {BodyLimit, BodyLimit + 1, 2 * BodyLimit}

WireValues == {WString(Utf8Encode(What)), WString(Utf8Encode(EAcute)), WNil, WDate(20260101)}

WireParams == UNION {[1..n -> WireValues] : n \in 0..MaxParams}

MethodNames == HandlerNames \cup {"__call__", "no_such_method"}

Bodies(mode) ==
    {Garbage} \cup
    {MethodCall(m, ps) :
        m \in (IF mode = "XMLRPCView" THEN MethodNames ELSE {"__call__", "a_method"}),
        ps \in WireParams}

\* wrapped: the function xmlrpc_view decorated (none for an XMLRPCView).
Requests ==
    UNION {[mode : {mode}, content_length : ContentLengths, body : Bodies(mode),
            wrapped : IF mode = "XMLRPCView" THEN {NoHandler} ELSE HandlerNames]
           : mode \in Modes}

NoRequest == [mode |-> "none"]

AllSettings ==
    [allow_none : {Absent, PyStr("true"), PyStr("false")},
     use_datetime : {Absent, PyStr("yes")},
     charset : {Absent, PyStr("us-ascii"), PyStr("iso-8859-1")}]

Unconfigured == [ty |-> "unconfigured"]

(***************************************************************************)
(* State.                                                                  *)
(***************************************************************************)
VARIABLES
    allow_none,     \* XMLRPCView.allow_none
    charset,        \* XMLRPCView.charset
    use_datetime,   \* XMLRPCView.use_datetime
    configured,     \* the settings of the latest includeme, if any
    pc,             \* per thread: the step its request is at
    request,        \* per thread: the request it handles
    depth,          \* per thread: how many __call__ frames are re-entered
    params,         \* per thread: the local params
    method,         \* per thread: the local method
    value,          \* per thread: the handler's return value
    result,         \* per thread: what the caller gets, a response or an exception
    obs             \* per thread: what the request has done so far

options == <<allow_none, charset, use_datetime>>
locals == <<pc, request, depth, params, method, value, result, obs>>
vars == <<allow_none, charset, use_datetime, configured, pc, request, depth, params,
          method, value, result, obs>>

Pending == [kind |-> "pending"]
Responded(response) == [kind |-> "response", response |-> response]
Failed(exc) == [kind |-> "raise", exc |-> exc]

NoValue == [ty |-> "unset"]

\* What a request has done: passed the guard, read its body, called a
\* handler (which, with what), and the options its codec calls were given.
NoObs ==
    [guardPassed |-> FALSE, bodyReads |-> 0, calls |-> 0, called |-> NoHandler,
     args |-> <<>>, decoded |-> FALSE, use_datetime |-> FALSE,
     encoded |-> FALSE, allow_none |-> FALSE, encoding |-> PyNone]

\* class XMLRPCView: allow_none = False; charset = None; use_datetime = False
Init ==
    /\ allow_none = FALSE
    /\ charset = PyNone
    /\ use_datetime = FALSE
    /\ configured = Unconfigured
    /\ pc = [t \in Threads |-> "idle"]
    /\ request = [t \in Threads |-> NoRequest]
    /\ depth = [t \in Threads |-> 0]
    /\ params = [t \in Threads |-> <<>>]
    /\ method = [t \in Threads |-> ""]
    /\ value = [t \in Threads |-> NoValue]
    /\ result = [t \in Threads |-> Pending]
    /\ obs = [t \in Threads |-> NoObs]

includeme(settings) ==
    /\ allow_none' = asbool(SettingsGet(settings, "allow_none", PyBool(FALSE)))
    /\ use_datetime' = asbool(SettingsGet(settings, "use_datetime", PyBool(FALSE)))
    /\ charset' = SettingsGet(settings, "charset", PyNone)
    /\ configured' = settings
    /\ UNCHANGED locals

\* The framework calls the view: _curried(context, request), or
\* XMLRPCView(context, request) followed by __call__().
Receive(t, q) ==
    /\ pc[t] = "idle"
    /\ request' = [request EXCEPT ![t] = q]
    /\ pc' = [pc EXCEPT ![t] = "guard"]
    /\ UNCHANGED <<options, configured, depth, params, method, value, result, obs>>

\* A view class that keeps the request in one attribute shared by all
\* instances (that of the first thread).
TheRequestShared(t) == request[MainThread]

\* self.request of the view, or the request argument of _curried
TheRequest(t) == request[t]

\* parse_xmlrpc_request, the guard
Guard(t) ==
    /\ pc[t] = "guard"
    /\ LET n == TheRequest(t).content_length
           large == IF TheRequest(t).mode = "bfg_xmlrpc_view"
                    THEN bfg_TooLarge(n) ELSE TooLarge(n)
       IN  IF large
           THEN /\ result' = [result EXCEPT ![t] = Failed(BodyTooLarge(n))]
                /\ pc' = [pc EXCEPT ![t] = "done"]
                /\ obs' = obs
           ELSE /\ obs' = [obs EXCEPT ![t].guardPassed = TRUE]
                /\ pc' = [pc EXCEPT ![t] = "decode"]
                /\ result' = result
    /\ UNCHANGED <<options, configured, request, depth, params, method, value>>

\* The use_datetime given to parse_xmlrpc_request.
UseDatetimeArg(mode) == IF mode = "XMLRPCView" THEN use_datetime ELSE FALSE

\* parse_xmlrpc_request, xmlrpclib.loads(request.body, use_datetime)
Decode(t) ==
    /\ pc[t] = "decode"
    /\ LET arg == UseDatetimeArg(TheRequest(t).mode)
           r == loads(TheRequest(t).body, arg)
       IN  /\ obs' = [obs EXCEPT ![t].bodyReads = @ + 1, ![t].decoded = TRUE,
                                 ![t].use_datetime = arg]
           /\ IF r.ok
              THEN /\ params' = [params EXCEPT ![t] = r.params]
                   /\ method' = [method EXCEPT ![t] = r.method]
                   /\ pc' = [pc EXCEPT ![t] = "invoke"]
                   /\ result' = result
              ELSE /\ result' = [result EXCEPT ![t] = Failed(r.exc)]
                   /\ pc' = [pc EXCEPT ![t] = "done"]
                   /\ UNCHANGED <<params, method>>
    /\ UNCHANGED <<options, configured, request, depth, value>>

\* A dispatch that turns every error but a Fault into a returned Fault.
DispatchCatchAll(q, m, args) ==
    LET c == CASE q.mode = "xmlrpc_view" -> curried_call(q.wrapped, args)
               [] q.mode = "bfg_xmlrpc_view" -> bfg_curried_call(q.wrapped, args)
               [] q.mode = "XMLRPCView" -> getattr_call(m, args)
    IN  IF c.out.kind = "raise" /\ ~IsFault(c.out.exc)
        THEN Called(c.calls, c.called, Return(PyFault(PyInt(1), PyUnicode(Foo))))
        ELSE c

\* The call of the handler in the three adapters.
Dispatch(q, m, args) ==
    CASE q.mode = "xmlrpc_view" -> curried_call(q.wrapped, args)
      [] q.mode = "bfg_xmlrpc_view" -> bfg_curried_call(q.wrapped, args)
      [] q.mode = "XMLRPCView" -> getattr_call(m, args)

Invoke(t) ==
    /\ pc[t] = "invoke"
    /\ LET c == Dispatch(TheRequest(t), method[t], params[t])
       IN  /\ obs' = [obs EXCEPT ![t].calls = @ + c.calls,
                                 ![t].called = IF c.calls > 0 THEN c.called ELSE @,
                                 ![t].args = IF c.calls > 0 THEN params[t] ELSE @]
           /\ CASE c.out.kind = "return" ->
                       /\ value' = [value EXCEPT ![t] = c.out.value]
                       /\ pc' = [pc EXCEPT ![t] = "encode"]
                       /\ UNCHANGED <<result, depth>>
                [] c.out.kind = "raise" ->
                       /\ result' = [result EXCEPT ![t] = Failed(c.out.exc)]
                       /\ pc' = [pc EXCEPT ![t] = "done"]
                       /\ UNCHANGED <<value, depth>>
                [] c.out.kind = "redispatch" ->
                       IF depth[t] < MaxRecursion
                       THEN /\ depth' = [depth EXCEPT ![t] = @ + 1]
                            /\ pc' = [pc EXCEPT ![t] = "guard"]
                            /\ UNCHANGED <<value, result>>
                       ELSE /\ result' = [result EXCEPT ![t] = Failed(RecursionError)]
                            /\ pc' = [pc EXCEPT ![t] = "done"]
                            /\ UNCHANGED <<value, depth>>
    /\ UNCHANGED <<options, configured, request, params, method>>

\* An XMLRPCView that leaves allow_none at the default of xmlrpc_response.
AllowNoneDefault(mode) == FALSE

\* A wrapper that hands the configured allow_none to xmlrpc_response.
AllowNoneConfigured(mode) == allow_none

\* The allow_none and the encoding given to xmlrpc_response.
AllowNoneArg(mode) == IF mode = "XMLRPCView" THEN allow_none ELSE FALSE

EncodingArg(mode) == IF mode = "XMLRPCView" THEN charset ELSE PyNone

Respond(mode, data, an, enc) ==
    IF mode = "bfg_xmlrpc_view" THEN bfg_xmlrpc_response(data)
    ELSE xmlrpc_response(data, an, enc)

Encode(t) ==
    /\ pc[t] = "encode"
    /\ LET an == AllowNoneArg(TheRequest(t).mode)
           enc == EncodingArg(TheRequest(t).mode)
           r == Respond(TheRequest(t).mode, value[t], an, enc)
       IN  /\ obs' = [obs EXCEPT ![t].encoded = TRUE, ![t].allow_none = an,
                                 ![t].encoding = enc]
           /\ result' = [result EXCEPT ![t] =
                            IF r.ok THEN Responded(r.response) ELSE Failed(r.exc)]
    /\ pc' = [pc EXCEPT ![t] = "done"]
    /\ UNCHANGED <<options, configured, request, depth, params, method, value>>

\* The response, or the exception, is with the caller; the frame is gone.
Finish(t) ==
    /\ pc[t] = "done"
    /\ pc' = [pc EXCEPT ![t] = "idle"]
    /\ request' = [request EXCEPT ![t] = NoRequest]
    /\ depth' = [depth EXCEPT ![t] = 0]
    /\ params' = [params EXCEPT ![t] = <<>>]
    /\ method' = [method EXCEPT ![t] = ""]
    /\ value' = [value EXCEPT ![t] = NoValue]
    /\ result' = [result EXCEPT ![t] = Pending]
    /\ obs' = [obs EXCEPT ![t] = NoObs]
    /\ UNCHANGED <<options, configured>>

Step(t) == Guard(t) \/ Decode(t) \/ Invoke(t) \/ Encode(t)

\* Requests arrive one after the other; includeme may run at any time.
Next ==
    \/ \E settings \in AllSettings : includeme(settings)
    \/ \E q \in Requests : Receive(MainThread, q)
    \/ Guard(MainThread)
    \/ Decode(MainThread)
    \/ Invoke(MainThread)
    \/ Encode(MainThread)
    \/ Finish(MainThread)

Spec == Init /\ [][Next]_vars

(***************************************************************************)
(* What a request has done, read off the state.                            *)
(***************************************************************************)
Active(t) == pc[t] # "idle"

\* The guard has run for the request of thread t.
GuardActed(t) == Active(t) /\ (pc[t] # "guard" \/ depth[t] > 0)

IsResponse(t) == result[t].kind = "response"
IsError(t) == result[t].kind = "raise"

\* The request passed the guard and its body decoded.
DecodedOk(t) ==
    Active(t) /\ obs[t].guardPassed /\ obs[t].decoded
    /\ request[t].body.root = "methodCall"

(***************************************************************************)
(* C1: parse_xmlrpc_request raises the too-large error exactly when the    *)
(* declared content_length is greater than 1 << 23: once the guard has     *)
(* run, a request declaring at most 8388608 bytes has passed it and its    *)
(* result is not the too-large error, and a request declaring 8388609      *)
(* bytes or more has not passed it and its result is the ValueError that   *)
(* carries the declared size.                                              *)
(***************************************************************************)
C1_GuardThreshold ==
    \A t \in Threads :
        GuardActed(t) =>
            LET n == request[t].content_length
                tooLarge == Failed(PyExc("ValueError", <<"Body too large (%s bytes)", n>>))
            IN  /\ n <= 8388608 => obs[t].guardPassed /\ result[t] # tooLarge
                /\ n >= 8388609 => ~obs[t].guardPassed /\ result[t] = tooLarge

\* A request declaring one byte more than 8 MiB has been rejected with the
\* error that carries 8388609.
C1_Witness ==
    \E t \in Threads :
        /\ pc[t] = "done"
        /\ request[t].content_length = 8388609
        /\ result[t] = Failed(PyExc("ValueError", <<"Body too large (%s bytes)", 8388609>>))

(***************************************************************************)
(* C2: the size guard runs before every other step, in all adapters: a     *)
(* request whose declared length exceeds the threshold never has its body  *)
(* read or decoded, never has a handler called and never gets a response;  *)
(* and whatever has been read, decoded, called or encoded, the guard had   *)
(* passed before.                                                          *)
(***************************************************************************)
C2_GuardFirst ==
    \A t \in Threads :
        Active(t) =>
            /\ request[t].content_length > 8388608 =>
                   /\ obs[t].bodyReads = 0 /\ ~obs[t].decoded
                   /\ obs[t].calls = 0 /\ ~obs[t].encoded
                   /\ value[t] = NoValue /\ ~IsResponse(t)
                   /\ pc[t] \in {"guard", "done"}
            /\ (\/ obs[t].bodyReads > 0 \/ obs[t].decoded \/ obs[t].calls > 0
                \/ obs[t].encoded \/ IsResponse(t)
                \/ pc[t] \in {"decode", "invoke", "encode"})
                   => obs[t].guardPassed

\* An oversized request to an XMLRPCView has ended without its body read.
C2_Witness ==
    \E t \in Threads :
        /\ pc[t] = "done"
        /\ request[t].mode = "XMLRPCView"
        /\ request[t].content_length > 8388608
        /\ request[t].body.root = "methodCall"
        /\ IsError(t)
        /\ obs[t].bodyReads = 0

(***************************************************************************)
(* C3 as claimed: every request that passes the guard and decodes has had  *)
(* its handler called exactly once when it ends, whatever the method name. *)
(***************************************************************************)
C3_ExactlyOnceAlways ==
    \A t \in Threads : pc[t] = "done" /\ DecodedOk(t) => obs[t].calls = 1

\* The decoded method name resolves to a handler of the application.
ResolvesToHandler(t) ==
    request[t].mode # "XMLRPCView" \/ request[t].body.methodName \in HandlerNames

(***************************************************************************)
(* C3 as amended: a handler is called at most once per request, and        *)
(* exactly once when the call resolves to a handler of the application     *)
(* (always under xmlrpc_view; under XMLRPCView when the decoded name is a  *)
(* method the subclass defines).  When the name is no attribute of the     *)
(* view, or is the inherited __call__, no handler is called: the lookup's  *)
(* AttributeError, the TypeError of __call__ given parameters, or the      *)
(* RuntimeError that ends the re-entry of __call__ without parameters is   *)
(* what the caller gets.  Only __call__ re-enters the dispatch.  The value *)
(* that is encoded is the one this request's single call returned.         *)
(***************************************************************************)
C3_AtMostOnce ==
    \A t \in Threads :
        Active(t) =>
            /\ obs[t].calls <= 1
            /\ pc[t] = "done" /\ DecodedOk(t) =>
                   /\ ResolvesToHandler(t) => obs[t].calls = 1 /\ depth[t] = 0
                   /\ ~ResolvesToHandler(t) =>
                          /\ obs[t].calls = 0
                          /\ IsError(t)
                          /\ result[t].exc.type \in {"AttributeError", "TypeError", "RuntimeError"}
                   /\ depth[t] > 0 => request[t].body.methodName = "__call__"
            /\ value[t] # NoValue =>
                   /\ obs[t].calls = 1
                   /\ Handler(obs[t].called, obs[t].args) = Return(value[t])
            /\ IsResponse(t) => obs[t].calls = 1 /\ value[t] # NoValue

\* A request to an XMLRPCView has called its method once and got a response.
C3_Witness ==
    \E t \in Threads :
        /\ pc[t] = "done"
        /\ request[t].mode = "XMLRPCView"
        /\ obs[t].calls = 1
        /\ IsResponse(t)

\* What the one call of the handler came to (a request with calls = 1).
HandlerOutcome(t) == Handler(obs[t].called, obs[t].args)

\* The Fault the handler returned or raised, if it did.
ReturnedFault(t) ==
    obs[t].calls = 1 /\ HandlerOutcome(t).kind = "return" /\ IsFault(HandlerOutcome(t).value)
RaisedFault(t) ==
    obs[t].calls = 1 /\ HandlerOutcome(t).kind = "raise" /\ IsFault(HandlerOutcome(t).exc)

\* The response of thread t is the fault document carrying fault f.
AnsweredWithFault(t, f) ==
    /\ IsResponse(t)
    /\ IsFaultDocument(result[t].response.body)
    /\ loads_fault(result[t].response.body) = f

C5_ErrorsPropagate ==
    \A t \in Threads :
        pc[t] = "done" /\ DecodedOk(t) =>
            /\ (obs[t].calls = 1 /\ HandlerOutcome(t).kind = "raise"
                /\ ~IsFault(HandlerOutcome(t).exc)) =>
                   /\ result[t] = Failed(HandlerOutcome(t).exc)
                   /\ ~obs[t].encoded /\ ~IsResponse(t)
            /\ (request[t].mode = "XMLRPCView"
                /\ request[t].body.methodName \notin HandlerNames \cup {"__call__"}) =>
                   /\ result[t] = Failed(PyExc("AttributeError", <<request[t].body.methodName>>))
                   /\ obs[t].calls = 0 /\ ~obs[t].encoded /\ ~IsResponse(t)

\* A handler has raised RuntimeError and the caller got it.
C5_Witness ==
    \E t \in Threads :
        /\ pc[t] = "done"
        /\ obs[t].called = "boom"
        /\ result[t] = Failed(PyExc("RuntimeError", <<"boom">>))

(***************************************************************************)
(* C6: xmlrpc_marshal yields one of two kinds of document, never both:     *)
(* whenever a value has been marshalled into a response, the document of a *)
(* Fault is a fault document that carries the fault's code and message,    *)
(* and the document of any other value is a success methodResponse whose   *)
(* parameter list holds exactly one element, that value.  (A value that    *)
(* cannot be marshalled yields no document: C8.)                           *)
(***************************************************************************)
C6_OneDocumentKind ==
    \A t \in Threads :
        pc[t] = "done" /\ obs[t].encoded /\ IsResponse(t) =>
            LET doc == result[t].response.body
                v == value[t]
            IN  /\ doc.root = "methodResponse"
                /\ IsFaultDocument(doc) # IsSuccessDocument(doc)
                /\ IsFault(v) => IsFaultDocument(doc) /\ loads_fault(doc) = v
                /\ ~IsFault(v) =>
                       /\ IsSuccessDocument(doc)
                       /\ Len(doc.params) = 1
                       /\ loads_response(doc, v.ty = "datetime") = <<v>>

\* A string has been marshalled into a success document.
C6_Witness ==
    \E t \in Threads :
        /\ pc[t] = "done"
        /\ obs[t].encoded
        /\ value[t] = PyUnicode(What)
        /\ IsResponse(t)
        /\ IsSuccessDocument(result[t].response.body)

\* The steps of the request of thread t, as changes of its position.
DecodeStep(t) == pc[t] = "decode" /\ pc'[t] # "decode"
InvokeStep(t) == pc[t] = "invoke" /\ pc'[t] # "invoke"
EncodeStep(t) == pc[t] = "encode" /\ pc'[t] # "encode"

C7_Routing(t) ==
    /\ DecodeStep(t) =>
           /\ obs'[t].use_datetime = use_datetime
           /\ pc'[t] = "invoke" =>
                  /\ method'[t] = request[t].body.methodName
                  /\ Len(params'[t]) = Len(request[t].body.params)
                  /\ \A k \in 1..Len(params'[t]) :
                         /\ params'[t][k] =
                                Unmarshal(request[t].body.params[k], "utf-8", use_datetime)
                         /\ request[t].body.params[k].tag = "dateTime.iso8601" =>
                                params'[t][k].ty =
                                    (IF use_datetime THEN "datetime" ELSE "DateTime")
    /\ InvokeStep(t) /\ method[t] \in HandlerNames =>
           /\ obs'[t].calls = obs[t].calls + 1
           /\ obs'[t].called = method[t]
           /\ obs'[t].args = params[t]
           /\ pc'[t] = "encode" => Return(value'[t]) = Handler(method[t], params[t])
    /\ EncodeStep(t) =>
           LET xml == xmlrpc_marshal(value[t], allow_none, charset)
           IN  /\ obs'[t].allow_none = allow_none
               /\ obs'[t].encoding = charset
               /\ xml.ok =>
                      /\ result'[t] = Responded([content_type |-> "text/xml", body |-> xml.doc])
                      /\ xml.doc.encoding =
                             (IF charset = PyNone THEN "utf-8" ELSE charset.s)
                      /\ value[t] = PyNone => allow_none
                      /\ obs[t].called = "a_method" =>
                             loads_response(xml.doc, obs[t].use_datetime) = params[t]
               /\ ~xml.ok => result'[t] = Failed(xml.exc)

(***************************************************************************)
(* C7: multi-method dispatch routes by the decoded method name and applies *)
(* the view's own options.  In every step of a request to an XMLRPCView:   *)
(* the body is decoded with the use_datetime of the view (a date parameter *)
(* becomes a datetime exactly when it is set); for a method name the       *)
(* subclass defines, the method of that name is called once with exactly   *)
(* the decoded parameters, in order, and its return value is what is       *)
(* encoded; and the result is the marshalling of that value under the      *)
(* allow_none and the charset of the view: the response whose body is that *)
(* document (for the echo method it decodes back to the parameters sent),  *)
(* or the error of the marshalling.                                        *)
(***************************************************************************)
C7_MultiMethodDispatch ==
    [][\A t \in Threads : request[t].mode = "XMLRPCView" => C7_Routing(t)]_vars

\* The echo method of an XMLRPCView has returned a date decoded as a
\* datetime, and the response holds it.
C7_Witness ==
    \E t \in Threads :
        /\ pc[t] = "done"
        /\ request[t].mode = "XMLRPCView"
        /\ obs[t].called = "a_method"
        /\ obs[t].use_datetime
        /\ value[t].ty = "datetime"
        /\ IsResponse(t)
        /\ result[t].response.body.params = request[t].body.params

(***************************************************************************)
(* C8: None is encodable only when allow_none is enabled: whenever None    *)
(* has been given to xmlrpc_response, with allow_none false the result is  *)
(* the TypeError of the marshaller and no response, and with allow_none    *)
(* true it is a response whose body decodes back to the single parameter   *)
(* None.                                                                   *)
(***************************************************************************)
C8_NilNeedsAllowNone ==
    \A t \in Threads :
        pc[t] = "done" /\ obs[t].encoded /\ value[t] = PyNone =>
            /\ ~obs[t].allow_none =>
                   /\ IsError(t)
                   /\ result[t].exc.type = "TypeError"
            /\ obs[t].allow_none =>
                   /\ IsResponse(t)
                   /\ IsSuccessDocument(result[t].response.body)
                   /\ loads_response(result[t].response.body, FALSE) = <<PyNone>>

\* A method has returned None under allow_none and the response holds <nil/>.
C8_Witness ==
    \E t \in Threads :
        /\ pc[t] = "done"
        /\ obs[t].called = "nil_method"
        /\ obs[t].allow_none
        /\ IsResponse(t)
        /\ result[t].response.body.params = <<WNil>>

\* The options are those the latest includeme gave (the class's defaults
\* before any): a key absent from the settings gives False, or no charset.
C9_OptionsAsConfigured ==
    IF configured = Unconfigured
    THEN allow_none = FALSE /\ use_datetime = FALSE /\ charset = PyNone
    ELSE /\ allow_none = (configured.allow_none = PyStr("true"))
         /\ use_datetime = (configured.use_datetime = PyStr("yes"))
         /\ charset = (IF configured.charset = Absent THEN PyNone ELSE configured.charset)

(***************************************************************************)
(* C9: the process-wide options change only through configuration: in      *)
(* every state the options of the XMLRPCView class are those of the most   *)
(* recent includeme (False, False and no charset for absent keys), and     *)
(* every step that handles a request, to a response or to an error, leaves *)
(* allow_none, use_datetime and charset unchanged.                         *)
(***************************************************************************)
C9_OptionsOnlyConfigured ==
    /\ []C9_OptionsAsConfigured
    /\ [][locals' # locals => UNCHANGED options]_vars

\* After an includeme that sets allow_none to "false" and a charset, a
\* request has ended in a response.
C9_Witness ==
    \E t \in Threads :
        /\ configured # Unconfigured
        /\ configured.allow_none = PyStr("false")
        /\ configured.charset = PyStr("iso-8859-1")
        /\ charset = PyStr("iso-8859-1")
        /\ pc[t] = "done"
        /\ IsResponse(t)

(***************************************************************************)
(* Requests handled at the same time.  The configuration is fixed before   *)
(* the first request; each thread handles one request, and the steps of    *)
(* the threads interleave in every order.                                  *)
(***************************************************************************)
ConcWireValues == {WNil, WString(Utf8Encode(EAcute)), WDate(20260101)}

ConcRequests ==
    {q \in Requests :
        /\ q.mode # "bfg_xmlrpc_view"
        /\ q.content_length \in {BodyLimit, BodyLimit + 1}
        /\ q.body # Garbage =>
               /\ Len(q.body.params) <= 1
               /\ \A k \in 1..Len(q.body.params) : q.body.params[k] \in ConcWireValues
        /\ q.mode # "XMLRPCView" =>
               /\ q.body # Garbage
               /\ q.body.methodName = "a_method"
               /\ Len(q.body.params) = 1
        /\ q.content_length > BodyLimit =>
               /\ q.body = MethodCall("a_method", <<WNil>>)
               /\ q.wrapped \in {NoHandler, "a_method"}}

ConcSettings ==
    {s \in AllSettings : s.allow_none # PyStr("false") /\ s.charset # PyStr("iso-8859-1")}

ConcInit ==
    /\ configured \in ConcSettings
    /\ allow_none = asbool(SettingsGet(configured, "allow_none", PyBool(FALSE)))
    /\ use_datetime = asbool(SettingsGet(configured, "use_datetime", PyBool(FALSE)))
    /\ charset = SettingsGet(configured, "charset", PyNone)
    /\ request \in [Threads -> ConcRequests \cup {NoRequest}]
    /\ request[MainThread] # NoRequest
    /\ pc = [t \in Threads |-> IF request[t] = NoRequest THEN "idle" ELSE "guard"]
    /\ depth = [t \in Threads |-> 0]
    /\ params = [t \in Threads |-> <<>>]
    /\ method = [t \in Threads |-> ""]
    /\ value = [t \in Threads |-> NoValue]
    /\ result = [t \in Threads |-> Pending]
    /\ obs = [t \in Threads |-> NoObs]

ConcNext ==
    \E t \in Threads :
        \/ Guard(t)
        \/ Decode(t)
        \/ Invoke(t)
        \/ Encode(t)

SpecConcurrent == ConcInit /\ [][ConcNext]_vars

\* What _curried(context, request) or XMLRPCView(context, request)() comes
\* to when it runs from its first statement to its last with nothing in
\* between: the response it returns or the exception it raises.
HandleAlone(q) ==
    IF (IF q.mode = "bfg_xmlrpc_view"
        THEN bfg_TooLarge(q.content_length) ELSE TooLarge(q.content_length))
    THEN Failed(BodyTooLarge(q.content_length))
    ELSE LET r == loads(q.body, UseDatetimeArg(q.mode))
         IN  IF ~r.ok THEN Failed(r.exc)
             ELSE LET c == Dispatch(q, r.method, r.params)
                  IN  CASE c.out.kind = "raise" -> Failed(c.out.exc)
                        [] c.out.kind = "redispatch" -> Failed(RecursionError)
                        [] c.out.kind = "return" ->
                               LET e == Respond(q.mode, c.out.value,
                                                AllowNoneArg(q.mode), EncodingArg(q.mode))
                               IN  IF e.ok THEN Responded(e.response) ELSE Failed(e.exc)

(***************************************************************************)
(* C10: requests handled at the same time are independent: with the        *)
(* configuration fixed, in every interleaving of the guard, decode, call   *)
(* and encode steps of the threads, each request ends with the response or *)
(* the exception it comes to when it is handled alone; and no step of a    *)
(* thread changes anything of another thread's request.                    *)
(***************************************************************************)
C10_RequestsIndependent ==
    /\ [](\A t \in Threads : pc[t] = "done" => result[t] = HandleAlone(request[t]))
    /\ [][\A t \in Threads :
             pc'[t] # pc[t] =>
                 \A u \in Threads \ {t} :
                     /\ pc'[u] = pc[u] /\ request'[u] = request[u]
                     /\ params'[u] = params[u] /\ method'[u] = method[u]
                     /\ value'[u] = value[u] /\ result'[u] = result[u]
                     /\ obs'[u] = obs[u] /\ depth'[u] = depth[u]]_vars

\* Two different requests handled at the same time have both ended, one in
\* a response and one in an exception.
C10_Witness ==
    /\ \A t \in Threads : pc[t] = "done"
    /\ request["t1"] # request["t2"]
    /\ request["t1"].mode # request["t2"].mode
    /\ IsResponse("t1")
    /\ IsError("t2")

\* The request of thread t goes through a function xmlrpc_view wrapped.
SingleFunction(t) == Active(t) /\ request[t].mode # "XMLRPCView"

(***************************************************************************)
(* C11: single-function mode never uses the configured options nor the     *)
(* method name.  For every request to a function wrapped by xmlrpc_view,   *)
(* whatever includeme has set: the body is decoded with use_datetime false *)
(* (a date parameter stays the DateTime wrapper); once decoded, the        *)
(* wrapped function, and no other, is called with exactly the decoded      *)
(* parameters whatever the decoded method name is; and its return value is *)
(* encoded with allow_none false and the default encoding (UTF-8), so that *)
(* a returned None ends in the marshaller's TypeError and no response,     *)
(* also when the class's allow_none is true.                               *)
(***************************************************************************)
C11_SingleFunctionDefaults ==
    \A t \in Threads :
        SingleFunction(t) =>
            /\ depth[t] = 0
            /\ ~obs[t].use_datetime
            /\ DecodedOk(t) /\ pc[t] # "decode" =>
                   /\ Len(params[t]) = Len(request[t].body.params)
                   /\ \A k \in 1..Len(params[t]) :
                          /\ params[t][k] = Unmarshal(request[t].body.params[k], "utf-8", FALSE)
                          /\ params[t][k].ty # "datetime"
            /\ DecodedOk(t) /\ pc[t] \in {"encode", "done"} =>
                   /\ obs[t].calls = 1
                   /\ obs[t].called = request[t].wrapped
                   /\ obs[t].args = params[t]
            /\ obs[t].encoded =>
                   /\ ~obs[t].allow_none
                   /\ obs[t].encoding = PyNone
                   /\ IsResponse(t) => result[t].response.body.encoding = "utf-8"
                   /\ value[t] = PyNone =>
                          /\ IsError(t)
                          /\ result[t].exc.type = "TypeError"

\* After includeme has set allow_none to true, a wrapped function called
\* under the method name __call__ has returned None and the request has
\* ended in the TypeError.
C11_Witness ==
    \E t \in Threads :
        /\ allow_none
        /\ pc[t] = "done"
        /\ request[t].mode = "xmlrpc_view"
        /\ request[t].body.root = "methodCall"
        /\ request[t].body.methodName = "__call__"
        /\ obs[t].called = "nil_method"
        /\ value[t] = PyNone
        /\ obs[t].encoded
        /\ result[t] = Failed(PyExc("TypeError", <<"cannot marshal None unless allow_none is enabled">>))

=============================================================================
